---- MODULE Spec2Model ----
(***************************************************************************)
(* Model of src/main.py: the Probe Engine (WebsiteManager.check_website    *)
(* and WebsiteManager.check_all_websites).                                 *)
(*                                                                         *)
(* Strings are sequences of one-character strings, so that startswith,     *)
(* concatenation and slicing are computed as Python computes them.         *)
(* Times are integers in microseconds (1 ms = 1000).                       *)
(* An optional value (Python's None or a value) is the empty set or a      *)
(* singleton.                                                              *)
(***************************************************************************)
EXTENDS Integers, Sequences, FiniteSets, TLC

VARIABLES
    \* one check_website call (checkOne)
    p_pc,          \* "idle" | "requesting" | "done"
    p_url,         \* the url argument
    p_timeout,     \* the timeout argument, seconds
    p_outcome,     \* what requests.get did (a response or a raised exception)
    p_elapsed,     \* time.time() - start_time when the outcome is determined
    p_result,      \* what the call returned or raised
    \* one check_all_websites call (checkAll)
    pc,            \* "idle" | "submit" | "collect" | "returned"
    websites,      \* the websites argument
    max_workers,   \* the max_workers argument
    timeout_setting, \* the timeout the caller configured (the sidebar slider)
    futures,       \* the submitted futures, in submission order
    yielded,       \* indexes of the futures as_completed has handed to the loop
    results,       \* the results dict
    aborted,       \* TRUE when an exception left check_all_websites
    writes,        \* how many times each key of results was assigned
    last_results,  \* the dict the caller kept from an earlier call
    \* the Site List Store and the page that drives it
    app,           \* "running" | "crashed" | "startup_error"
    file,          \* websites.json: whether it exists, and its bytes
    mgr,           \* website_manager.websites
    l_ret,         \* what the last load_websites() call returned or raised
    s_pc,          \* save_websites: "idle" | "writing"
    s_caller,      \* who called save_websites: "api" | "save_button" | "reset_button"
    s_arg,         \* the websites argument of save_websites
    s_done,        \* bytes of the dump that have reached the file
    s_ret,         \* what save_websites returned: "none" | "true" | "false" | "raise"
    st_error,      \* the st.error of save_websites: "none" | "saving"
    ui_text,       \* websites_text of the submitted form
    ui_msg,        \* the message the form handler showed
    prev_file,     \* the file when the last save_websites call was entered
    prev_mgr,      \* website_manager.websites at that moment
    c_pc,          \* the check cycle of the page: "idle" | "running" | "shown"
    c_index        \* how many urls of the list the cycle has probed

probeVars == <<p_pc, p_url, p_timeout, p_outcome, p_elapsed, p_result>>
batchVars == <<pc, websites, max_workers, timeout_setting, futures, yielded,
               results, aborted, writes,
                   last_results>>
storeVars == <<app, file, mgr, l_ret, s_pc, s_caller, s_arg, s_done, s_ret,
               st_error, ui_text, ui_msg, prev_file, prev_mgr>>
cycleVars == <<c_pc, c_index>>
vars == <<p_pc, p_url, p_timeout, p_outcome, p_elapsed, p_result,
          pc, websites, max_workers, timeout_setting, futures, yielded,
          results, aborted, writes, last_results,
          app, file, mgr, l_ret, s_pc, s_caller, s_arg, s_done, s_ret,
          st_error, ui_text, ui_msg, prev_file, prev_mgr,
          c_pc, c_index>>

----------------------------------------------------------------------------
(* Bounds of the model *)

MaxTimeout == 3      \* check_website is tried with timeout 1..MaxTimeout
MaxUrls == 2         \* longest websites list given to check_all_websites
MaxWorkers == 2      \* largest max_workers given to check_all_websites

----------------------------------------------------------------------------
(* Values *)

None == {}
Some(x) == {x}

Min(a, b) == IF a <= b THEN a ELSE b

Range(s) == {s[i] : i \in 1..Len(s)}

HTTP == <<"h", "t", "t", "p", ":", "/", "/">>
HTTPS == <<"h", "t", "t", "p", "s", ":", "/", "/">>

\* str.startswith(prefix)
StartsWith(s, prefix) ==
    /\ Len(s) >= Len(prefix)
    /\ SubSeq(s, 1, Len(prefix)) = prefix

\* The URL strings the model feeds to the probes.
UrlBare == <<"a">>                                        \* "a"
UrlHttp == HTTP \o <<"a">>                                \* "http://a"
UrlHttps == HTTPS \o <<"a">>                              \* "https://a"
UrlNearMiss == <<"h", "t", "t", "p", ":", "/", "a">>      \* "http:/a"
UrlUpper == <<"H", "T", "T", "P", ":", "/", "/", "a">>    \* "HTTP://a"
UrlEmpty == <<>>                                          \* ""

ProbeUrls == {UrlBare, UrlHttp, UrlHttps, UrlNearMiss, UrlUpper, UrlEmpty}
BatchUrls == {UrlBare, UrlHttps}

\* Status codes a final response may carry (boundaries of every range).
StatusCodes == {-1, 0, 100, 199, 200, 204, 299, 300, 301, 399,
                400, 404, 499, 500, 503, 599, 600, 999}

\* str(e) of a raised exception: a short text and one longer than the slice.
ErrorMsgLen == 50
MsgShort == <<"e", "r", "r">>
MsgLong == [i \in 1..(ErrorMsgLen + 1) |-> "x"]

\* Elapsed wall-clock times, in microseconds.
ElapsedTimes == {0, 1234, 1238, 2000000}

----------------------------------------------------------------------------
(* requests.exceptions: the classes requests.get raises and their bases *)

Bases(cls) ==
    CASE cls = "SSLError" -> {"ConnectionError"}
      [] cls = "ProxyError" -> {"ConnectionError"}
      [] cls = "ConnectTimeout" -> {"ConnectionError", "Timeout"}
      [] cls = "ReadTimeout" -> {"Timeout"}
      [] cls = "ConnectionError" -> {"RequestException"}
      [] cls = "Timeout" -> {"RequestException"}
      [] cls = "TooManyRedirects" -> {"RequestException"}
      [] cls = "InvalidURL" -> {"RequestException", "ValueError"}
      [] cls = "RequestException" -> {"OSError"}
      [] cls = "OSError" -> {"Exception"}
      [] cls = "ValueError" -> {"Exception"}
      [] cls = "MemoryError" -> {"Exception"}
      [] cls = "JSONDecodeError" -> {"ValueError"}
      [] cls = "UnicodeDecodeError" -> {"UnicodeError"}
      [] cls = "UnicodeError" -> {"ValueError"}
      [] cls = "FileNotFoundError" -> {"OSError"}
      [] cls = "PermissionError" -> {"OSError"}
      [] cls = "Exception" -> {"BaseException"}
      [] OTHER -> {}

RECURSIVE Ancestors(_)
Ancestors(cls) ==
    {cls} \cup UNION {Ancestors(b) : b \in Bases(cls)}

\* isinstance(e, handler) for an exception e of class cls
IsInstance(cls, handler) == handler \in Ancestors(cls)

RaisedClasses == {"SSLError", "ProxyError", "ConnectTimeout", "ReadTimeout",
                  "ConnectionError", "Timeout", "TooManyRedirects",
                  "InvalidURL", "ValueError"}

Response(code) == [kind |-> "response", status_code |-> code, cls |-> "",
                   msg |-> <<>>]
Raised(cls, msg) == [kind |-> "raise", status_code |-> 0, cls |-> cls,
                     msg |-> msg]

\* Everything requests.get can do.
TransportOutcomes ==
    {Response(c) : c \in StatusCodes}
        \cup {Raised(c, MsgShort) : c \in RaisedClasses}
        \cup {Raised("ValueError", MsgLong)}

NoOutcome == [kind |-> "none", status_code |-> 0, cls |-> "", msg |-> <<>>]

----------------------------------------------------------------------------
(* WebsiteStatus and check_website *)

\* The status text: icon, label, the status code and the error text put in it.
StatusText(icon, label, code, msg) ==
    [icon |-> icon, label |-> label, code |-> code, msg |-> msg]

WebsiteStatus(url, status, color, response_time, status_code) ==
    [url |-> url, status |-> status, color |-> color,
     response_time |-> response_time, status_code |-> status_code]

DefaultTimeout == 10

\* round(x, 2) of a time in ms: the nearest multiple of 10 microseconds
\* (ties depend on the float's binary digits; ElapsedTimes has none).
Round2(us) == ((us + 5) \div 10) * 10

\* Lines 68-69.
Normalize(url) ==
    IF StartsWith(url, HTTP) \/ StartsWith(url, HTTPS)
    THEN url
    ELSE HTTPS \o url

\* ClassifyResponse with the first test written `code < 300` (no lower bound).
ClassifyResponseNoLowerBound(url, code, response_time) ==
    IF code < 300 THEN
        WebsiteStatus(url, StatusText("green", "Online", None, <<>>),
                      "#28a745", response_time, Some(code))
    ELSE IF 300 <= code /\ code < 400 THEN
        WebsiteStatus(url, StatusText("yellow", "Redirect", Some(code), <<>>),
                      "#ffc107", response_time, Some(code))
    ELSE IF 400 <= code /\ code < 500 THEN
        WebsiteStatus(url, StatusText("red", "Client Error", Some(code), <<>>),
                      "#dc3545", response_time, Some(code))
    ELSE IF 500 <= code /\ code < 600 THEN
        WebsiteStatus(url, StatusText("red", "Server Error", Some(code), <<>>),
                      "#dc3545", response_time, Some(code))
    ELSE
        WebsiteStatus(url, StatusText("yellow", "Unknown", Some(code), <<>>),
                      "#ffc107", response_time, Some(code))

\* Lines 81-120: the if/elif chain over response.status_code.
ClassifyResponse(url, code, response_time) ==
    IF 200 <= code /\ code < 300 THEN
        WebsiteStatus(url, StatusText("green", "Online", None, <<>>),
                      "#28a745", response_time, Some(code))
    ELSE IF 300 <= code /\ code < 400 THEN
        WebsiteStatus(url, StatusText("yellow", "Redirect", Some(code), <<>>),
                      "#ffc107", response_time, Some(code))
    ELSE IF 400 <= code /\ code < 500 THEN
        WebsiteStatus(url, StatusText("red", "Client Error", Some(code), <<>>),
                      "#dc3545", response_time, Some(code))
    ELSE IF 500 <= code /\ code < 600 THEN
        WebsiteStatus(url, StatusText("red", "Server Error", Some(code), <<>>),
                      "#dc3545", response_time, Some(code))
    ELSE
        WebsiteStatus(url, StatusText("yellow", "Unknown", Some(code), <<>>),
                      "#ffc107", response_time, Some(code))

\* Lines 122-143: the except clauses, in the order they are written.
ExceptClausesReordered == <<"ConnectionError", "SSLError", "Timeout", "Exception">>
ExceptClausesNoCatchAll == <<"SSLError", "Timeout", "ConnectionError">>
ExceptClauses == <<"SSLError", "Timeout", "ConnectionError", "Exception">>

\* The first except clause that matches, 0 when none does.
MatchingClause(cls) ==
    LET hits == {i \in 1..Len(ExceptClauses) : IsInstance(cls, ExceptClauses[i])}
    IN IF hits = {} THEN 0
       ELSE CHOOSE i \in hits : \A j \in hits : i <= j

\* Line 134 (the response_time of the Timeout handler).
TimeoutResponseTimeElapsed(timeout, elapsed) == elapsed
TimeoutResponseTime(timeout, elapsed) == timeout * 1000 * 1000

\* Lines 122-149: the body of the clause that caught the exception.
HandleException(url, timeout, cls, msg, elapsed) ==
    LET clause == ExceptClauses[MatchingClause(cls)]
    IN CASE clause = "SSLError" ->
              WebsiteStatus(url, StatusText("red", "SSL Error", None, <<>>),
                            "#dc3545", elapsed, None)
         [] clause = "Timeout" ->
              WebsiteStatus(url, StatusText("red", "Timeout", None, <<>>),
                            "#dc3545", TimeoutResponseTime(timeout, elapsed),
                            None)
         [] clause = "ConnectionError" ->
              WebsiteStatus(url, StatusText("red", "Connection Failed", None, <<>>),
                            "#dc3545", elapsed, None)
         [] OTHER ->
              WebsiteStatus(url,
                            StatusText("red", "Error", None,
                                       SubSeq(msg, 1, Min(ErrorMsgLen, Len(msg)))),
                            "#dc3545", elapsed, None)

Returned(value) == [kind |-> "return", value |-> value, cls |-> "", msg |-> <<>>]
Propagated(cls, msg) == [kind |-> "raise", value |-> None, cls |-> cls, msg |-> msg]
NoResult == [kind |-> "none", value |-> None, cls |-> "", msg |-> <<>>]

\* Lines 62-149: check_website(url, timeout) when requests.get ends in
\* `outcome` after `elapsed`.
CheckWebsite(url, timeout, outcome, elapsed) ==
    LET requested == Normalize(url)
    IN IF outcome.kind = "response" THEN
           Returned(ClassifyResponse(requested, outcome.status_code,
                                     Round2(elapsed)))
       ELSE IF MatchingClause(outcome.cls) = 0 THEN
           Propagated(outcome.cls, outcome.msg)
       ELSE
           Returned(HandleException(requested, timeout, outcome.cls,
                                    outcome.msg, elapsed))

----------------------------------------------------------------------------
(* Python values, UTF-8 and JSON (json.dump / json.load of lines 46 and 55) *)

\* A Python value: str, int, None, list, or dict (items: key, value, ...).
PyStr(s) == [t |-> "str", s |-> s, n |-> 0, items |-> <<>>]
PyInt(n) == [t |-> "int", s |-> <<>>, n |-> n, items |-> <<>>]
PyNone == [t |-> "NoneType", s |-> <<>>, n |-> 0, items |-> <<>>]
PyList(items) == [t |-> "list", s |-> <<>>, n |-> 0, items |-> items]
PyDict(items) == [t |-> "dict", s |-> <<>>, n |-> 0, items |-> items]

\* A list of str, from a sequence of strings.
StrList(xs) == PyList([i \in 1..Len(xs) |-> PyStr(xs[i])])

IsStrList(v) ==
    /\ v.t = "list"
    /\ \A i \in 1..Len(v.items) : v.items[i].t = "str"

\* The one non-ASCII character of the model; UTF-8 encodes it in two bytes.
EAcute == "U+00E9"
ByteC3 == "xC3"
ByteA9 == "xA9"
ByteFF == "xFF"     \* a byte that no UTF-8 text contains

\* The concatenation of a sequence of sequences (halved, to keep the
\* evaluation shallow on the long default list).
RECURSIVE Flatten(_)
Flatten(seqs) ==
    IF seqs = <<>> THEN <<>>
    ELSE IF Len(seqs) = 1 THEN seqs[1]
    ELSE LET half == Len(seqs) \div 2
         IN Flatten(SubSeq(seqs, 1, half))
                \o Flatten(SubSeq(seqs, half + 1, Len(seqs)))

\* encoding="utf-8" on write: text -> bytes.
Utf8Encode(text) ==
    Flatten([i \in 1..Len(text) |->
                 IF text[i] = EAcute THEN <<ByteC3, ByteA9>> ELSE <<text[i]>>])

\* encoding="utf-8" on read: bytes -> text, or UnicodeDecodeError (ok FALSE).
\* The only multi-byte sequence of the model is C3 A9: a C3 not followed by
\* A9, an A9 not preceded by C3, and FF are invalid.
Utf8Decode(bytes) ==
    LET valid == \A i \in 1..Len(bytes) :
                     /\ bytes[i] # ByteFF
                     /\ bytes[i] = ByteC3 =>
                            i < Len(bytes) /\ bytes[i + 1] = ByteA9
                     /\ bytes[i] = ByteA9 => i > 1 /\ bytes[i - 1] = ByteC3
    IN IF ~valid THEN [ok |-> FALSE, text |-> <<>>]
       ELSE [ok |-> TRUE,
             text |-> Flatten([i \in 1..Len(bytes) |->
                                  IF bytes[i] = ByteC3 THEN <<EAcute>>
                                  ELSE IF bytes[i] = ByteA9 THEN <<>>
                                  ELSE <<bytes[i]>>])]

Quote == "\""
Backslash == "\\"
Newline == "\n"

\* The body of a JSON string literal without escaping (a faulty encoder).
JsonEscapeNone(str) == str
\* json.dump(..., ensure_ascii=False): the body of a JSON string literal.
JsonEscape(str) ==
    Flatten([i \in 1..Len(str) |->
                 IF str[i] = Quote THEN <<Backslash, Quote>>
                 ELSE IF str[i] = Backslash THEN <<Backslash, Backslash>>
                 ELSE IF str[i] = Newline THEN <<Backslash, "n">>
                 ELSE <<str[i]>>])

JsonString(str) == <<Quote>> \o JsonEscape(str) \o <<Quote>>

\* json.dump(websites, f, indent=2, ensure_ascii=False) of a list of str:
\* the text written.
JsonDumpList(xs) ==
    IF xs = <<>> THEN <<"[", "]">>
    ELSE <<"[">>
         \o Flatten([i \in 1..Len(xs) |->
                        (IF i = 1 THEN <<>> ELSE <<",">>)
                            \o <<Newline, " ", " ">> \o JsonString(xs[i])])
         \o <<Newline, "]">>

\* json.load: a recursive-descent reader of strings, integers, null, arrays
\* and objects. A result is [ok, v, i]: success, the value, the next index.
JsonFail == [ok |-> FALSE, v |-> PyNone, i |-> 0]
JsonOk(v, i) == [ok |-> TRUE, v |-> v, i |-> i]

Digits == <<"0", "1", "2", "3", "4", "5", "6", "7", "8", "9">>
IsDigit(c) == \E d \in 1..Len(Digits) : Digits[d] = c
DigitValue(c) == (CHOOSE d \in 1..Len(Digits) : Digits[d] = c) - 1

RECURSIVE SkipWs(_, _)
SkipWs(text, i) ==
    IF i <= Len(text) /\ text[i] \in {" ", Newline} THEN SkipWs(text, i + 1)
    ELSE i

\* text[i] is the character after the opening quote; acc is the value so far.
RECURSIVE ReadString(_, _, _)
ReadString(text, i, acc) ==
    IF i > Len(text) THEN JsonFail
    ELSE IF text[i] = Quote THEN JsonOk(PyStr(acc), i + 1)
    ELSE IF text[i] = Newline THEN JsonFail
    ELSE IF text[i] = Backslash THEN
        IF i + 1 > Len(text) THEN JsonFail
        ELSE IF text[i + 1] = Quote THEN ReadString(text, i + 2, Append(acc, Quote))
        ELSE IF text[i + 1] = Backslash THEN
            ReadString(text, i + 2, Append(acc, Backslash))
        ELSE IF text[i + 1] = "n" THEN ReadString(text, i + 2, Append(acc, Newline))
        ELSE JsonFail
    ELSE ReadString(text, i + 1, Append(acc, text[i]))

RECURSIVE ReadInt(_, _, _)
ReadInt(text, i, acc) ==
    IF i <= Len(text) /\ IsDigit(text[i])
    THEN ReadInt(text, i + 1, acc * 10 + DigitValue(text[i]))
    ELSE JsonOk(PyInt(acc), i)

RECURSIVE ReadValue(_, _)
RECURSIVE ReadElements(_, _, _)
RECURSIVE ReadMembers(_, _, _)

\* After "[" or ",": the next element, then "," or "]".
ReadElements(text, i, acc) ==
    LET e == ReadValue(text, SkipWs(text, i))
    IN IF ~e.ok THEN JsonFail
       ELSE LET j == SkipWs(text, e.i)
            IN IF j > Len(text) THEN JsonFail
               ELSE IF text[j] = "," THEN
                   ReadElements(text, j + 1, Append(acc, e.v))
               ELSE IF text[j] = "]" THEN
                   JsonOk(PyList(Append(acc, e.v)), j + 1)
               ELSE JsonFail

\* After "{" or ",": the next "key": value, then "," or "}".
ReadMembers(text, i, acc) ==
    LET k == SkipWs(text, i)
    IN IF k > Len(text) \/ text[k] # Quote THEN JsonFail
       ELSE LET key == ReadString(text, k + 1, <<>>)
            IN IF ~key.ok THEN JsonFail
               ELSE LET c == SkipWs(text, key.i)
                    IN IF c > Len(text) \/ text[c] # ":" THEN JsonFail
                       ELSE LET e == ReadValue(text, SkipWs(text, c + 1))
                            IN IF ~e.ok THEN JsonFail
                               ELSE LET j == SkipWs(text, e.i)
                                        items == acc \o <<key.v, e.v>>
                                    IN IF j > Len(text) THEN JsonFail
                                       ELSE IF text[j] = "," THEN
                                           ReadMembers(text, j + 1, items)
                                       ELSE IF text[j] = "}" THEN
                                           JsonOk(PyDict(items), j + 1)
                                       ELSE JsonFail

ReadValue(text, i) ==
    IF i > Len(text) THEN JsonFail
    ELSE IF text[i] = Quote THEN ReadString(text, i + 1, <<>>)
    ELSE IF IsDigit(text[i]) THEN ReadInt(text, i, 0)
    ELSE IF i + 3 <= Len(text) /\ SubSeq(text, i, i + 3) = <<"n", "u", "l", "l">>
        THEN JsonOk(PyNone, i + 4)
    ELSE IF text[i] = "[" THEN
        LET j == SkipWs(text, i + 1)
        IN IF j <= Len(text) /\ text[j] = "]" THEN JsonOk(PyList(<<>>), j + 1)
           ELSE ReadElements(text, i + 1, <<>>)
    ELSE IF text[i] = "{" THEN
        LET j == SkipWs(text, i + 1)
        IN IF j <= Len(text) /\ text[j] = "}" THEN JsonOk(PyDict(<<>>), j + 1)
           ELSE ReadMembers(text, i + 1, <<>>)
    ELSE JsonFail

\* json.loads(text): the value, or JSONDecodeError (ok FALSE); text after
\* the value other than whitespace is an error ("Extra data").
JsonLoads(text) ==
    LET r == ReadValue(text, SkipWs(text, 1))
    IN IF r.ok /\ SkipWs(text, r.i) > Len(text) THEN r ELSE JsonFail

----------------------------------------------------------------------------
(* One check_website call *)

\* Line 62-64: the call is entered and the request is issued.
ProbeCall(u, t) ==
    /\ p_pc \in {"idle", "done"}
    /\ p_pc' = "requesting"
    /\ p_url' = u
    /\ p_timeout' = t
    /\ p_outcome' = NoOutcome
    /\ p_elapsed' = 0
    /\ p_result' = NoResult
    /\ UNCHANGED <<batchVars, storeVars, cycleVars>>

\* Lines 71-149: requests.get ends and the call returns (or raises).
ProbeFinish(o, e) ==
    /\ p_pc = "requesting"
    /\ p_pc' = "done"
    /\ p_outcome' = o
    /\ p_elapsed' = e
    /\ p_result' = CheckWebsite(p_url, p_timeout, o, e)
    /\ UNCHANGED <<p_url, p_timeout>>
    /\ UNCHANGED <<batchVars, storeVars, cycleVars>>

----------------------------------------------------------------------------
(* One check_all_websites call *)

EmptyDict == [k \in {} |-> NoResult]

\* Line 153: results = {}, a local of the call; `old` is what an earlier
\* call left.
ResultsKept(old) == old
ResultsAtCall(old) == EmptyDict

\* The count of assignments to each key of results (kept beside the dict).
NoWrites == [k \in {} |-> 0]
Counted(w, keys) ==
    [k \in DOMAIN w \cup keys |->
        (IF k \in DOMAIN w THEN w[k] ELSE 0) + (IF k \in keys THEN 1 ELSE 0)]

\* d[key] = value
Put(d, key, value) ==
    [k \in DOMAIN d \cup {key} |-> IF k = key THEN value ELSE d[k]]

\* What the worker pool feeds the probes of a batch.
BatchOutcomes == {Response(200), Raised("ReadTimeout", MsgShort)}
BatchElapsed == {1234}
TimeoutSettings == {5, 10}

WebsiteLists ==
    UNION {[1..n -> BatchUrls] : n \in 0..MaxUrls}

\* runs counts the executions of check_website for the work item.
Future(url, timeout) ==
    [url |-> url, timeout |-> timeout, state |-> "PENDING", res |-> NoResult,
     runs |-> 0]

\* Line 157: executor.submit(self.check_website, url); the timeout
\* parameter of check_website takes its default.
SubmittedTimeout(setting) == DefaultTimeout

\* Line 155: ThreadPoolExecutor(max_workers=max_workers).
PoolSizeOnePerUrl(workers, urls) == Len(urls)
PoolSize(workers, urls) == workers

InFlight == {i \in 1..Len(futures) : futures[i].state = "RUNNING"}
Pending == {i \in 1..Len(futures) : futures[i].state = "PENDING"}
Finished == {i \in 1..Len(futures) : futures[i].state = "FINISHED"}

\* Line 162: url = future_to_url[future].
ResultKeyRequested(f) == Normalize(f.url)
ResultKey(f) == f.url

\* Lines 167-172: the record stored when future.result() raises.
SyntheticStatusZero(url, msg) ==
    WebsiteStatus(url, StatusText("red", "Error", None, msg), "#dc3545", 0, Some(0))
SyntheticStatus(url, msg) ==
    WebsiteStatus(url, StatusText("red", "Error", None, msg), "#dc3545", 0, None)

\* Lines 166-172: except Exception as e: results[url] = WebsiteStatus(...).
OnResultErrorSkip(d, f) == d
OnResultError(d, f) == Put(d, ResultKey(f), SyntheticStatus(ResultKey(f), f.res.msg))

\* Lines 161 and 174: the loop over as_completed is exhausted, the with
\* block has shut the pool down (wait=True), and results is returned.
MayReturnEarly == yielded # {}
MayReturn ==
    /\ yielded = 1..Len(futures)
    /\ Finished = 1..Len(futures)

\* Lines 151-155: the call is entered.
CheckAll(ws, mw, ts) ==
    /\ pc \in {"idle", "returned"}
    /\ websites' = ws
    /\ max_workers' = mw
    /\ timeout_setting' = ts
    /\ results' = ResultsAtCall(results)
    /\ futures' = <<>>
    /\ yielded' = {}
    /\ aborted' = FALSE
    /\ writes' = NoWrites
    /\ UNCHANGED last_results
    /\ pc' = IF Len(ws) = 0 THEN "collect" ELSE "submit"
    /\ UNCHANGED <<probeVars, storeVars, cycleVars>>

\* Lines 156-159: the next url of the list is submitted to the pool.
Submit ==
    /\ pc = "submit"
    /\ Len(futures) < Len(websites)
    /\ futures' = Append(futures,
                         Future(websites[Len(futures) + 1],
                                SubmittedTimeout(timeout_setting)))
    /\ pc' = IF Len(futures) + 1 = Len(websites) THEN "collect" ELSE "submit"
    /\ UNCHANGED <<websites, max_workers, timeout_setting, yielded, results,
                   aborted, writes,
                   last_results>>
    /\ UNCHANGED <<probeVars, storeVars, cycleVars>>

\* A worker thread of the pool takes the oldest pending work item.
Start ==
    /\ pc \in {"submit", "collect"}
    /\ Pending # {}
    /\ Cardinality(InFlight) < PoolSize(max_workers, websites)
    /\ LET i == CHOOSE j \in Pending : \A k \in Pending : j <= k
       IN futures' = [futures EXCEPT ![i].state = "RUNNING",
                                     ![i].runs = @ + 1]
    /\ UNCHANGED <<pc, websites, max_workers, timeout_setting, yielded,
                   results, aborted, writes,
                   last_results>>
    /\ UNCHANGED <<probeVars, storeVars, cycleVars>>

\* The probe of future i ends; a probe that met an exception is queued
\* again instead of being recorded.
FinishRetrying(i, o, e) ==
    /\ pc \in {"submit", "collect"}
    /\ i \in InFlight
    /\ futures' = [futures EXCEPT
                     ![i].state = IF o.kind = "raise" THEN "PENDING"
                                  ELSE "FINISHED",
                     ![i].res = IF o.kind = "raise" THEN NoResult
                                ELSE CheckWebsite(futures[i].url,
                                                  futures[i].timeout, o, e)]
    /\ UNCHANGED <<pc, websites, max_workers, timeout_setting, yielded,
                   results, aborted, writes, last_results>>
    /\ UNCHANGED <<probeVars, storeVars, cycleVars>>

\* The probe of future i ends: check_website's return value (or the
\* exception it let through) is set on the future.
Finish(i, o, e) ==
    /\ pc \in {"submit", "collect"}
    /\ i \in InFlight
    /\ futures' = [futures EXCEPT
                     ![i].state = "FINISHED",
                     ![i].res = CheckWebsite(futures[i].url, futures[i].timeout,
                                             o, e)]
    /\ UNCHANGED <<pc, websites, max_workers, timeout_setting, yielded,
                   results, aborted, writes,
                   last_results>>
    /\ UNCHANGED <<probeVars, storeVars, cycleVars>>

\* The work item of future i fails outside what check_website's try block
\* handles (for instance a MemoryError while an except body builds its
\* record): the pool sets the exception on the future and future.result()
\* re-raises it at line 164.
Fault(i) ==
    /\ pc \in {"submit", "collect"}
    /\ i \in InFlight
    /\ futures' = [futures EXCEPT
                     ![i].state = "FINISHED",
                     ![i].res = Propagated("MemoryError", MsgShort)]
    /\ UNCHANGED <<pc, websites, max_workers, timeout_setting, yielded,
                   results, aborted, writes,
                   last_results>>
    /\ UNCHANGED <<probeVars, storeVars, cycleVars>>

\* Lines 161-172: one iteration of the loop over as_completed.
Collect(i) ==
    /\ pc = "collect"
    /\ i \in Finished \ yielded
    /\ yielded' = yielded \cup {i}
    /\ IF futures[i].res.kind = "return" THEN
           /\ results' = Put(results, ResultKey(futures[i]), futures[i].res.value)
           /\ UNCHANGED <<pc, aborted>>
       ELSE IF IsInstance(futures[i].res.cls, "Exception") THEN
           /\ results' = OnResultError(results, futures[i])
           /\ UNCHANGED <<pc, aborted>>
       ELSE
           /\ aborted' = TRUE
           /\ pc' = "raised"
           /\ UNCHANGED results
    /\ writes' = IF futures[i].res.kind = "return"
                       \/ IsInstance(futures[i].res.cls, "Exception")
                   THEN Counted(writes, {ResultKey(futures[i])})
                   ELSE writes
    /\ UNCHANGED last_results
    /\ UNCHANGED <<websites, max_workers, timeout_setting, futures>>
    /\ UNCHANGED <<probeVars, storeVars, cycleVars>>

\* Line 174: return results.
Return ==
    /\ pc = "collect"
    /\ MayReturn
    /\ pc' = "returned"
    /\ UNCHANGED <<websites, max_workers, timeout_setting, futures, yielded,
                   results, aborted, writes,
                   last_results>>
    /\ UNCHANGED <<probeVars, storeVars, cycleVars>>

\* Line 174: the caller keeps the dict the call returned to it.
KeepResults ==
    /\ pc = "returned"
    /\ last_results # results
    /\ last_results' = results
    /\ UNCHANGED <<pc, websites, max_workers, timeout_setting, futures, yielded,
                   results, aborted, writes>>
    /\ UNCHANGED <<probeVars, storeVars, cycleVars>>

----------------------------------------------------------------------------
(* The Site List Store: DATA_FILE, load_websites, save_websites *)

ChunkLen == 16       \* bytes that reach the file in one write of the buffer

\* Lines 14-25. A host name is one symbol of the string.
DEFAULT_WEBSITES ==
    <<HTTPS \o <<"agimobadrimmobilier.com">>,
      HTTPS \o <<"agimobadrimmobilier.ma">>,
      HTTPS \o <<"ceg.ma">>,
      HTTPS \o <<"elysiumdinnershow.ma">>,
      HTTPS \o <<"hrk.ma">>,
      HTTPS \o <<"kapture.ma">>,
      HTTPS \o <<"la-villa.ma">>,
      HTTPS \o <<"manaosavis.ma">>,
      HTTPS \o <<"startjobs.ma">>,
      HTTPS \o <<"topanimation.ma">>>>

NoFile == [exists |-> FALSE, bytes |-> <<>>]
FileOf(bytes) == [exists |-> TRUE, bytes |-> bytes]

\* A string with a space, a quote, a backslash, a line feed and a non-ASCII
\* character.
UrlTricky == <<" ", Quote, Backslash, Newline, EAcute>>

\* What websites.json may hold when the program starts.
InitialFiles ==
    {NoFile,
     FileOf(<<>>),                                                \* empty
     FileOf(Utf8Encode(JsonDumpList(<<UrlHttps, UrlBare>>))),     \* a saved list
     FileOf(<<"[", Newline, " ", " ", Quote, "a", Quote>>),       \* truncated
     FileOf(<<"[", "]">>),                                        \* []
     FileOf(<<"{", Quote, "a", Quote, ":", " ", "1", "}">>),      \* {"a": 1}
     FileOf(<<"4", "2">>),                                        \* 42
     FileOf(<<"n", "u", "l", "l">>),                              \* null
     FileOf(<<"[", Quote, "a", Quote, ",", " ", "1", "]">>),      \* ["a", 1]
     FileOf(<<"[", Quote, ByteFF, Quote, "]">>)}                  \* not UTF-8

\* Lists given to save_websites by a direct caller.
SaveLists == {<<>>, <<UrlBare>>, <<UrlHttps, UrlBare, UrlHttps>>, <<UrlTricky>>}

\* Line 47: except (json.JSONDecodeError, FileNotFoundError).
LoadExcept == {"JSONDecodeError", "FileNotFoundError"}

\* Lines 45-49: what open() and json.load raise, and the except clause.
LoadRaises(removed, decodedOk, parsedOk) ==
    IF removed THEN "FileNotFoundError"
    ELSE IF ~decodedOk THEN "UnicodeDecodeError"
    ELSE IF ~parsedOk THEN "JSONDecodeError"
    ELSE ""

LoadParsed(raised, parsed) ==
    IF raised = "" THEN Returned(parsed.v)
    ELSE IF \E h \in LoadExcept : IsInstance(raised, h)
         THEN Returned(StrList(DEFAULT_WEBSITES))
    ELSE Propagated(raised, <<>>)

LoadJson(removed, decodedOk, parsed) ==
    LoadParsed(LoadRaises(removed, decodedOk, parsed.ok), parsed)

LoadDecoded(removed, decoded) ==
    LoadJson(removed, decoded.ok, JsonLoads(decoded.text))

\* Lines 41-49: load_websites() on file f; `removed` when the file vanishes
\* between DATA_FILE.exists() and open().
LoadWebsites(f, removed) ==
    IF ~f.exists THEN Returned(StrList(DEFAULT_WEBSITES))
    ELSE LoadDecoded(removed, Utf8Decode(f.bytes))

\* Lines 38-39 and 177: website_manager = WebsiteManager().
Construct(f, removed) == LoadWebsites(f, removed)

\* Line 58: except Exception.
SaveExceptNarrow == "FileNotFoundError"
SaveExcept == "Exception"

\* Line 55: the bytes json.dump writes through f.
SaveBytes(xs) == Utf8Encode(JsonDumpList(xs))

\* The exceptions open() and the writes raise in the model.
OpenError == "PermissionError"
WriteError == "OSError"

\* Lines 58-60: the except clause of save_websites for an exception of cls.
SaveFailed(cls) ==
    IF IsInstance(cls, SaveExcept)
    THEN [s_ret |-> "false", st_error |-> "saving"]
    ELSE [s_ret |-> "raise", st_error |-> "none"]

\* What the form handler shows for a return value of save_websites
\* (lines 624-629 and 632-637).
HandlerMessage(caller, ret) ==
    IF caller = "save_button" THEN
        (IF ret = "true" THEN "saved" ELSE IF ret = "false" THEN "save_failed"
         ELSE "exception")
    ELSE IF caller = "reset_button" THEN
        (IF ret = "true" THEN "reset" ELSE IF ret = "false" THEN "reset_failed"
         ELSE "exception")
    ELSE "none"

\* Lines 53-54: save_websites(xs) is entered, with file f on disk and m in
\* self.websites, and opens the file for writing, which empties it; openOk
\* is FALSE when open() raises. (self.websites is assigned at line 56 only.)
SaveEnter(caller, xs, openOk, f, m) ==
    /\ prev_file' = f
    /\ prev_mgr' = m
    /\ s_caller' = caller
    /\ s_arg' = xs
    /\ s_done' = 0
    /\ l_ret' = NoResult
    /\ mgr' = m
    /\ IF openOk THEN
           /\ file' = FileOf(<<>>)
           /\ s_pc' = "writing"
           /\ s_ret' = "none"
           /\ st_error' = "none"
           /\ ui_msg' = "none"
       ELSE
           /\ file' = f
           /\ s_pc' = "idle"
           /\ s_ret' = SaveFailed(OpenError).s_ret
           /\ st_error' = SaveFailed(OpenError).st_error
           /\ ui_msg' = HandlerMessage(caller, SaveFailed(OpenError).s_ret)

\* A direct call of save_websites(xs).
StoreSave(xs, openOk) ==
    /\ app = "running"
    /\ s_pc = "idle"
    /\ SaveEnter("api", xs, openOk, file, mgr)
    /\ UNCHANGED <<app, ui_text>>
    /\ UNCHANGED <<probeVars, batchVars, cycleVars>>

\* save_websites(load_websites()): the list just loaded is saved again.
StoreSaveLoaded(openOk) ==
    /\ l_ret.kind = "return"
    /\ IsStrList(l_ret.value)
    /\ StoreSave([i \in 1..Len(l_ret.value.items) |-> l_ret.value.items[i].s],
                 openOk)

\* Line 55: the next part of the dump reaches the file.
SaveWrite ==
    /\ app = "running"
    /\ s_pc = "writing"
    /\ \E bytes \in {SaveBytes(s_arg)} :
           /\ s_done < Len(bytes)
           /\ s_done' = Min(s_done + ChunkLen, Len(bytes))
           /\ file' = FileOf(SubSeq(bytes, 1, s_done'))
    /\ UNCHANGED <<app, mgr, l_ret, s_pc, s_caller, s_arg, s_ret, st_error,
                   ui_text, ui_msg, prev_file, prev_mgr>>
    /\ UNCHANGED <<probeVars, batchVars, cycleVars>>

\* Lines 55 and 58-60: a write (or the flush on close) raises before the
\* whole dump is in the file.
SaveWriteFail ==
    /\ app = "running"
    /\ s_pc = "writing"
    /\ s_done < Len(SaveBytes(s_arg))
    /\ s_pc' = "idle"
    /\ s_ret' = SaveFailed(WriteError).s_ret
    /\ st_error' = SaveFailed(WriteError).st_error
    /\ ui_msg' = HandlerMessage(s_caller, SaveFailed(WriteError).s_ret)
    /\ UNCHANGED <<app, file, mgr, l_ret, s_caller, s_arg, s_done, ui_text,
                   prev_file, prev_mgr>>
    /\ UNCHANGED <<probeVars, batchVars, cycleVars>>

\* Lines 56-57: the with block is left, self.websites = websites, return
\* True. A form handler then shows its message and calls st.rerun(), and
\* the script builds the manager again (line 177).
SaveClose(removed) ==
    /\ app = "running"
    /\ s_pc = "writing"
    /\ s_done = Len(SaveBytes(s_arg))
    /\ s_pc' = "idle"
    /\ s_ret' = "true"
    /\ ui_msg' = HandlerMessage(s_caller, "true")
    /\ IF s_caller = "api" THEN
           /\ ~removed
           /\ mgr' = StrList(s_arg)
           /\ UNCHANGED <<app, file>>
       ELSE
           \E c \in {Construct(file, removed)} :
              /\ file' = IF removed THEN NoFile ELSE file
              /\ app' = IF c.kind = "return" THEN "running" ELSE "startup_error"
              /\ mgr' = IF c.kind = "return" THEN c.value ELSE PyNone
    /\ UNCHANGED <<l_ret, s_caller, s_arg, s_done, st_error, ui_text,
                   prev_file, prev_mgr>>
    /\ UNCHANGED <<probeVars, batchVars, cycleVars>>

\* A direct call of load_websites().
StoreLoad(removed) ==
    /\ app = "running"
    /\ s_pc = "idle"
    /\ removed => file.exists
    /\ l_ret' = LoadWebsites(file, removed)
    /\ file' = IF removed THEN NoFile ELSE file
    /\ s_ret' = "none"
    /\ st_error' = "none"
    /\ UNCHANGED <<app, mgr, s_pc, s_caller, s_arg, s_done, ui_text, ui_msg,
                   prev_file, prev_mgr>>
    /\ UNCHANGED <<probeVars, batchVars, cycleVars>>

\* The process dies while save_websites has the file open (a crash at any
\* other moment leaves the file as it is).
Crash ==
    /\ app = "running"
    /\ s_pc = "writing"
    /\ app' = "crashed"
    /\ UNCHANGED <<file, mgr, l_ret, s_pc, s_caller, s_arg, s_done, s_ret,
                   st_error, ui_text, ui_msg, prev_file, prev_mgr>>
    /\ UNCHANGED <<probeVars, batchVars, cycleVars>>

\* The program is started again: line 177 builds the manager from the file.
Restart ==
    /\ app = "crashed"
    /\ \E c \in {Construct(file, FALSE)} :
          /\ app' = IF c.kind = "return" THEN "running" ELSE "startup_error"
          /\ mgr' = IF c.kind = "return" THEN c.value ELSE PyNone
          /\ l_ret' = c
    /\ s_pc' = "idle"
    /\ s_ret' = "none"
    /\ st_error' = "none"
    /\ ui_msg' = "none"
    /\ ui_text' = <<>>
    /\ UNCHANGED <<file, s_caller, s_arg, s_done, prev_file, prev_mgr>>
    /\ UNCHANGED <<probeVars, batchVars, cycleVars>>

\* The store when the program has started on file f.
StoreStartOn(f) ==
    /\ file = f
    /\ \E c \in {Construct(f, FALSE)} :
          /\ app = IF c.kind = "return" THEN "running" ELSE "startup_error"
          /\ mgr = IF c.kind = "return" THEN c.value ELSE PyNone
    /\ l_ret = NoResult
    /\ s_pc = "idle"
    /\ s_caller = "api"
    /\ s_arg = <<>>
    /\ s_done = 0
    /\ s_ret = "none"
    /\ st_error = "none"
    /\ ui_text = <<>>
    /\ ui_msg = "none"
    /\ prev_file = f
    /\ prev_mgr = mgr
    /\ c_pc = "idle"
    /\ c_index = 0

\* The program started with no websites.json.
StoreStart == StoreStartOn(NoFile)

----------------------------------------------------------------------------
(* The page: the website form and the check cycle *)

\* str.split(sep) for a one-character sep.
RECURSIVE Split(_, _)
Split(text, sep) ==
    IF \A i \in 1..Len(text) : text[i] # sep THEN <<text>>
    ELSE LET i == CHOOSE j \in 1..Len(text) :
                      text[j] = sep /\ \A k \in 1..(j - 1) : text[k] # sep
         IN <<SubSeq(text, 1, i - 1)>> \o Split(SubSeq(text, i + 1, Len(text)), sep)

Whitespace == {" ", Newline}

\* str.strip()
RECURSIVE Strip(_)
Strip(str) ==
    IF str = <<>> THEN str
    ELSE IF Head(str) \in Whitespace THEN Strip(Tail(str))
    ELSE IF str[Len(str)] \in Whitespace THEN Strip(SubSeq(str, 1, Len(str) - 1))
    ELSE str

RECURSIVE SelectNonEmpty(_)
SelectNonEmpty(xs) ==
    IF xs = <<>> THEN <<>>
    ELSE IF Head(xs) = <<>> THEN SelectNonEmpty(Tail(xs))
    ELSE <<Head(xs)>> \o SelectNonEmpty(Tail(xs))

\* The same comprehension, keeping the first occurrence of each line only.
RECURSIVE FirstOccurrences(_)
FirstOccurrences(xs) ==
    IF xs = <<>> THEN <<>>
    ELSE LET front == FirstOccurrences(SubSeq(xs, 1, Len(xs) - 1))
         IN IF \E i \in 1..(Len(xs) - 1) : xs[i] = xs[Len(xs)] THEN front
            ELSE Append(front, xs[Len(xs)])
NewWebsitesDeduplicated(text) ==
    LET lines == Split(text, Newline)
    IN FirstOccurrences(SelectNonEmpty([i \in 1..Len(lines) |-> Strip(lines[i])]))

\* Lines 616-619: [line.strip() for line in websites_text.split("\n")
\* if line.strip()].
NewWebsites(text) ==
    LET lines == Split(text, Newline)
    IN SelectNonEmpty([i \in 1..Len(lines) |-> Strip(lines[i])])

\* Line 561: the advisory validation of the form.
IsValidUrl(url) ==
    /\ StartsWith(url, HTTP) \/ StartsWith(url, HTTPS)
    /\ \E i \in 1..Len(url) : url[i] = "."

\* Line 621: if not new_websites.
RefusesSaveNever(new) == FALSE
RefusesSave(new) == new = <<>>

\* Line 546: "\n".join(website_manager.websites) works for a list (or the
\* keys of a dict) of str and raises TypeError otherwise.
Joinable(v) ==
    \/ IsStrList(v)
    \/ /\ v.t = "dict"
       /\ \A i \in 1..Len(v.items) : i % 2 = 1 => v.items[i].t = "str"

\* What the operator may have in the text area when submitting the form.
TextInputs ==
    {<<>>,
     <<" ", Newline, " ">>,
     <<"a">>,
     <<" ", "b", " ", Newline, Newline, "a", Newline, "b">>,
     HTTPS \o <<"a", ".", "b", Newline, "x", " ", "y", EAcute>>}

\* One run of the script up to the form handler: line 177 builds the
\* manager, line 546 renders the list. The result is the manager's list, or
\* the exception that ended the run.
RenderList(c) ==
    IF c.kind # "return" THEN c
    ELSE IF ~Joinable(c.value) THEN Propagated("TypeError", <<>>)
    ELSE c

ScriptStart(f, removed) == RenderList(Construct(f, removed))

\* The run ended by an exception before the form handler.
ScriptFails(text, removed, c) ==
    /\ ui_text' = text
    /\ ui_msg' = "exception"
    /\ file' = IF removed THEN NoFile ELSE file
    /\ mgr' = IF c.kind = "return" THEN c.value ELSE PyNone
    /\ s_ret' = "none"
    /\ st_error' = "none"
    /\ s_arg' = <<>>
    /\ s_done' = 0
    /\ prev_file' = file'
    /\ prev_mgr' = mgr'
    /\ UNCHANGED <<app, l_ret, s_pc, s_caller>>

\* Lines 615-629: the form is submitted with "Save Changes".
SaveClick(text, openOk, removed) ==
    /\ app = "running"
    /\ s_pc = "idle"
    /\ removed => file.exists
    /\ \E c \in {Construct(file, removed)}, new \in {NewWebsites(text)},
          f \in {IF removed THEN NoFile ELSE file} :
       \E start \in {RenderList(c)} :
          IF start.kind # "return" THEN ScriptFails(text, removed, c)
          ELSE IF RefusesSave(new) THEN
              /\ ui_text' = text
              /\ ui_msg' = "empty"
              /\ file' = f
              /\ mgr' = start.value
              /\ s_ret' = "none"
              /\ st_error' = "none"
              /\ s_arg' = <<>>
              /\ s_done' = 0
              /\ prev_file' = f
              /\ prev_mgr' = start.value
              /\ UNCHANGED <<app, l_ret, s_pc, s_caller>>
          ELSE
              /\ ui_text' = text
              /\ SaveEnter("save_button", new, openOk, f, start.value)
              /\ UNCHANGED app
    /\ UNCHANGED <<probeVars, batchVars, cycleVars>>

\* Lines 631-637: the form is submitted with "Reset to Default".
ResetClick(openOk, removed) ==
    /\ app = "running"
    /\ s_pc = "idle"
    /\ removed => file.exists
    /\ \E c \in {Construct(file, removed)},
          f \in {IF removed THEN NoFile ELSE file} :
       \E start \in {RenderList(c)} :
          IF start.kind # "return" THEN ScriptFails(ui_text, removed, c)
          ELSE
              /\ SaveEnter("reset_button", DEFAULT_WEBSITES, openOk, f, start.value)
              /\ ui_text' = <<>>
              /\ UNCHANGED app
    /\ UNCHANGED <<probeVars, batchVars, cycleVars>>

\* What the probes of a check cycle meet.
CycleOutcomes == {Response(200), Raised("ReadTimeout", MsgShort)}

\* The urls of the manager's list.
CycleUrls == [i \in 1..Len(mgr.items) |-> mgr.items[i].s]

CycleInFlight == IF p_pc = "requesting" THEN 1 ELSE 0

\* Lines 652-662: a run with "Start Check" clicked (or Auto Refresh on) and
\* the sliders at ts and mw.
CycleStart(ts, mw) ==
    /\ app = "running"
    /\ s_pc = "idle"
    /\ c_pc \in {"idle", "shown"}
    /\ \E start \in {ScriptStart(file, FALSE)} :
          /\ start.kind = "return"
          /\ IsStrList(start.value)
          /\ mgr' = start.value
    /\ timeout_setting' = ts
    /\ max_workers' = mw
    /\ results' = EmptyDict
    /\ c_index' = 0
    /\ c_pc' = IF mgr'.items = <<>> THEN "shown" ELSE "running"
    /\ UNCHANGED probeVars
    /\ UNCHANGED <<pc, websites, futures, yielded, aborted, writes,
                   last_results>>
    /\ UNCHANGED <<app, file, l_ret, s_pc, s_caller, s_arg, s_done, s_ret,
                   st_error, ui_text, ui_msg, prev_file, prev_mgr>>

\* Lines 664-666: the loop calls check_website(url, timeout_setting) for the
\* next url of the list.
CycleCall ==
    /\ c_pc = "running"
    /\ p_pc # "requesting"
    /\ c_index < Len(CycleUrls)
    /\ p_pc' = "requesting"
    /\ p_url' = CycleUrls[c_index + 1]
    /\ p_timeout' = timeout_setting
    /\ p_outcome' = NoOutcome
    /\ p_elapsed' = 0
    /\ p_result' = NoResult
    /\ UNCHANGED <<batchVars, storeVars, cycleVars>>

\* Lines 666-669: the call returns and its record is stored.
CycleFinish(o, e) ==
    /\ c_pc = "running"
    /\ p_pc = "requesting"
    /\ p_pc' = "done"
    /\ p_outcome' = o
    /\ p_elapsed' = e
    /\ p_result' = CheckWebsite(p_url, p_timeout, o, e)
    /\ p_result'.kind = "return"
    /\ results' = Put(results, p_url, p_result'.value)
    /\ c_index' = c_index + 1
    /\ UNCHANGED <<p_url, p_timeout, c_pc>>
    /\ UNCHANGED <<pc, websites, max_workers, timeout_setting, futures, yielded,
                   aborted, writes,
                   last_results>>
    /\ UNCHANGED storeVars

\* Lines 671-672: the loop is over and the results are displayed.
CycleEnd ==
    /\ c_pc = "running"
    /\ p_pc # "requesting"
    /\ c_index = Len(CycleUrls)
    /\ c_pc' = "shown"
    /\ UNCHANGED c_index
    /\ UNCHANGED <<probeVars, batchVars, storeVars>>

----------------------------------------------------------------------------
(* Specifications *)

\* The probe state before any call.
ProbeStart ==
    /\ p_pc = "idle"
    /\ p_url = UrlEmpty
    /\ p_timeout = DefaultTimeout
    /\ p_outcome = NoOutcome
    /\ p_elapsed = 0
    /\ p_result = NoResult
    /\ pc = "idle"
    /\ websites = <<>>
    /\ max_workers = 1
    /\ timeout_setting = DefaultTimeout
    /\ futures = <<>>
    /\ yielded = {}
    /\ results = EmptyDict
    /\ aborted = FALSE
    /\ writes = NoWrites
    /\ last_results = EmptyDict

\* The program started with no websites.json, before any call.
Init == ProbeStart /\ StoreStart

\* check_all_websites
Next ==
    \/ \E ws \in WebsiteLists, mw \in 1..MaxWorkers, ts \in TimeoutSettings :
           CheckAll(ws, mw, ts)
    \/ Submit
    \/ Start
    \/ \E i \in 1..MaxUrls, o \in BatchOutcomes, e \in BatchElapsed :
           Finish(i, o, e)
    \/ \E i \in 1..MaxUrls : Fault(i)
    \/ \E i \in 1..MaxUrls : Collect(i)
    \/ Return

Spec == Init /\ [][Next]_vars

\* Every probe ends (it is bounded by its timeout), the pool's threads
\* run, and the calling thread runs.
FairSpec ==
    /\ Spec
    /\ WF_vars(Submit)
    /\ WF_vars(Start)
    /\ WF_vars(\E i \in 1..MaxUrls, o \in BatchOutcomes, e \in BatchElapsed :
                   Finish(i, o, e))
    /\ WF_vars(\E i \in 1..MaxUrls : Collect(i))
    /\ WF_vars(Return)

\* check_website
ProbeNext ==
    \/ \E u \in ProbeUrls, t \in 1..MaxTimeout : ProbeCall(u, t)
    \/ \E o \in TransportOutcomes, e \in ElapsedTimes : ProbeFinish(o, e)

ProbeSpec == Init /\ [][ProbeNext]_vars

\* The Site List Store, called directly.
StoreInit ==
    /\ ProbeStart
    /\ \E f \in InitialFiles : StoreStartOn(f)

StoreNext ==
    \/ \E xs \in SaveLists, openOk \in BOOLEAN : StoreSave(xs, openOk)
    \/ \E openOk \in BOOLEAN : StoreSaveLoaded(openOk)
    \/ SaveWrite
    \/ SaveWriteFail
    \/ \E removed \in BOOLEAN : SaveClose(removed)
    \/ \E removed \in BOOLEAN : StoreLoad(removed)
    \/ Crash
    \/ Restart

StoreSpec == StoreInit /\ [][StoreNext]_vars

\* The website form, driven by the operator.
UiNext ==
    \/ \E text \in TextInputs, openOk \in BOOLEAN, removed \in BOOLEAN :
           SaveClick(text, openOk, removed)
    \/ \E openOk \in BOOLEAN, removed \in BOOLEAN : ResetClick(openOk, removed)
    \/ SaveWrite
    \/ SaveWriteFail
    \/ \E removed \in BOOLEAN : SaveClose(removed)
    \/ Crash
    \/ Restart

UiSpec == StoreInit /\ [][UiNext]_vars

\* The check cycle of the page.
CycleNext ==
    \/ \E ts \in TimeoutSettings, mw \in 1..MaxWorkers : CycleStart(ts, mw)
    \/ CycleCall
    \/ \E o \in CycleOutcomes, e \in BatchElapsed : CycleFinish(o, e)
    \/ CycleEnd

CycleSpec == StoreInit /\ [][CycleNext]_vars

\* check_all_websites on one url, its probe meeting every transport outcome.
SingleNext ==
    \/ \E u \in BatchUrls, ts \in TimeoutSettings : CheckAll(<<u>>, 1, ts)
    \/ Submit
    \/ Start
    \/ \E o \in TransportOutcomes, e \in BatchElapsed : Finish(1, o, e)
    \/ Fault(1)
    \/ Collect(1)
    \/ Return

SingleSpec == Init /\ [][SingleNext]_vars

\* The lists of successive check_all_websites calls: a url of the first is
\* gone from the second.
BatchesLists == {<<UrlHttps, UrlBare>>, <<UrlBare>>, <<>>}

\* The program started with no websites.json or with a saved list.
BatchesInit ==
    /\ ProbeStart
    /\ \E f \in {NoFile, FileOf(SaveBytes(<<UrlHttps, UrlBare>>))} :
           StoreStartOn(f)

\* check_all_websites called again and again by a caller that keeps the
\* returned dicts.
BatchesNext ==
    \/ \E ws \in BatchesLists, mw \in 1..MaxWorkers, ts \in TimeoutSettings :
           CheckAll(ws, mw, ts)
    \/ Submit
    \/ Start
    \/ \E i \in 1..MaxUrls, o \in BatchOutcomes, e \in BatchElapsed :
           Finish(i, o, e)
    \/ \E i \in 1..MaxUrls : Fault(i)
    \/ \E i \in 1..MaxUrls : Collect(i)
    \/ Return
    \/ KeepResults

BatchesSpec == BatchesInit /\ [][BatchesNext]_vars

----------------------------------------------------------------------------
(* Properties of check_website (checked under ProbeSpec) *)

Categories == {"Online", "Redirect", "Client Error", "Server Error", "Unknown",
               "SSL Error", "Timeout", "Connection Failed", "Error"}
Colors == {"#28a745", "#ffc107", "#dc3545"}

\* C1: check_website is total. Whatever the url and whatever requests.get
\* does (any response, or any exception it raises), the call returns a
\* populated WebsiteStatus and lets no exception through.
C1_CheckWebsiteTotal ==
    p_pc = "done" =>
        /\ p_result.kind = "return"
        /\ p_result.value.status.label \in Categories
        /\ p_result.value.color \in Colors
        /\ p_result.value.response_time >= 0
        /\ Len(p_result.value.url) > 0

C1_Witness ==
    /\ p_pc = "done"
    /\ p_outcome.kind = "raise"
    /\ p_outcome.cls = "ValueError"
    /\ p_outcome.msg = MsgLong
    /\ p_result.kind = "return"
    /\ p_result.value.status.label = "Error"
    /\ Len(p_result.value.status.msg) = ErrorMsgLen

\* C6: when a response was obtained the record is classified by the final
\* status code alone: 200-299 Online, 300-399 Redirect, 400-499 Client
\* Error, 500-599 Server Error, anything else Unknown; and the record's
\* status_code is the response's code.
C6_ClassifiedByStatusCode ==
    (p_pc = "done" /\ p_outcome.kind = "response") =>
        LET c == p_outcome.status_code
        IN /\ p_result.kind = "return"
           /\ p_result.value.status_code = Some(c)
           /\ p_result.value.status.label =
                  CASE c \in 200..299 -> "Online"
                    [] c \in 300..399 -> "Redirect"
                    [] c \in 400..499 -> "Client Error"
                    [] c \in 500..599 -> "Server Error"
                    [] OTHER -> "Unknown"

C6_Witness ==
    /\ p_pc = "done"
    /\ p_outcome = Response(404)
    /\ p_result.kind = "return"
    /\ p_result.value.status.label = "Client Error"
    /\ p_result.value.status_code = {404}

\* C7: when no response was obtained the failure is classified in priority
\* order, first match wins: an SSL failure gives SSL Error (although it is a
\* ConnectionError too), otherwise a timeout gives Timeout (although a
\* connect timeout is a ConnectionError too), otherwise a connection failure
\* gives Connection Failed, otherwise Error.
C7_FailurePriority ==
    (p_pc = "done" /\ p_outcome.kind = "raise") =>
        LET isa == Ancestors(p_outcome.cls)
        IN /\ p_result.kind = "return"
           /\ p_result.value.status.label =
                  IF "SSLError" \in isa THEN "SSL Error"
                  ELSE IF "Timeout" \in isa THEN "Timeout"
                  ELSE IF "ConnectionError" \in isa THEN "Connection Failed"
                  ELSE "Error"

C7_Witness ==
    /\ p_pc = "done"
    /\ p_outcome.kind = "raise"
    /\ p_outcome.cls = "SSLError"
    /\ "ConnectionError" \in Ancestors(p_outcome.cls)
    /\ p_result.kind = "return"
    /\ p_result.value.status.label = "SSL Error"

\* C8: a request that exceeds the timeout yields Timeout with response_time
\* exactly timeout * 1000 ms whatever time elapsed; every other failure
\* reports the time that elapsed, not this fixed value.
C8_TimeoutResponseTime ==
    (p_pc = "done" /\ p_outcome.kind = "raise") =>
        /\ p_result.kind = "return"
        /\ "Timeout" \in Ancestors(p_outcome.cls) =>
               /\ p_result.value.status.label = "Timeout"
               /\ p_result.value.response_time = p_timeout * 1000 * 1000
        /\ "Timeout" \notin Ancestors(p_outcome.cls) =>
               /\ p_result.value.status.label # "Timeout"
               /\ p_result.value.response_time = p_elapsed
               /\ p_elapsed # p_timeout * 1000 * 1000 =>
                      p_result.value.response_time # p_timeout * 1000 * 1000

C8_Witness ==
    /\ p_pc = "done"
    /\ p_outcome.kind = "raise"
    /\ p_outcome.cls = "ConnectTimeout"
    /\ p_timeout = 3
    /\ p_elapsed = 1234
    /\ p_result.kind = "return"
    /\ p_result.value.status.label = "Timeout"
    /\ p_result.value.response_time = 3000000

\* The url recorded by check_website is the url itself when it starts with
\* http:// or https://, and https:// + url otherwise, on every return path.
CheckWebsiteRecordsRequestedUrl ==
    p_pc = "done" =>
        /\ p_result.kind = "return"
        /\ p_result.value.url =
               IF \/ (Len(p_url) >= 7 /\ SubSeq(p_url, 1, 7) = HTTP)
                  \/ (Len(p_url) >= 8 /\ SubSeq(p_url, 1, 8) = HTTPS)
               THEN p_url
               ELSE HTTPS \o p_url

----------------------------------------------------------------------------
(* Properties of check_all_websites (checked under Spec and FairSpec) *)

\* C2: the dict returned by check_all_websites has exactly the input url
\* strings as its keys: none missing, none extra, duplicates collapsed to
\* one key that is the literal input string.
C2_KeysAreInputs ==
    pc = "returned" => DOMAIN results = Range(websites)

C2_Witness ==
    /\ pc = "returned"
    /\ Len(websites) = 2
    /\ websites[1] = UrlBare
    /\ websites[2] = UrlBare
    /\ DOMAIN results = {UrlBare}
    /\ futures[1].res.kind = "raise"
    /\ futures[2].res.kind = "return"

\* C3: the number of probes started and not yet finished never exceeds
\* max_workers.
C3_InFlightBounded ==
    Cardinality(InFlight) <= max_workers

C3_Witness ==
    /\ Cardinality(InFlight) = max_workers
    /\ Pending # {}

\* When check_all_websites has returned, every url was submitted and every
\* future is finished, was handed to the loop, and has its key stored.
C4_ReturnedComplete ==
    pc = "returned" =>
        /\ Len(futures) = Len(websites)
        /\ \A i \in 1..Len(futures) :
               /\ futures[i].state = "FINISHED"
               /\ i \in yielded
               /\ futures[i].url \in DOMAIN results

\* C4: check_all_websites returns only after every submitted probe has
\* finished and its outcome is stored (it is never returned while a probe is
\* pending or in flight), and, every probe ending, a started call returns.
C4_SynchronousBatch ==
    /\ []C4_ReturnedComplete
    /\ (pc \in {"submit", "collect"}) ~> (pc = "returned")

C4_Witness ==
    /\ pc = "returned"
    /\ Len(websites) = 2
    /\ websites[1] # websites[2]
    /\ max_workers = 1

\* C5: every probe of a batch runs with the timeout the caller configured,
\* so a Timeout outcome of the batch reports timeout_setting * 1000 ms.
C5_BatchUsesCallerTimeout ==
    \A i \in 1..Len(futures) :
        /\ futures[i].timeout = timeout_setting
        /\ (futures[i].res.kind = "return"
                /\ futures[i].res.value.status.label = "Timeout") =>
               futures[i].res.value.response_time = timeout_setting * 1000 * 1000

\* The loop iteration that takes a future whose result() raises stores the
\* synthetic record under that url and changes no other key.
C9_Step ==
    \A i \in 1..Len(futures) :
        (pc = "collect" /\ i \in yielded' \ yielded
            /\ futures[i].res.kind = "raise") =>
            /\ pc' = "collect"
            /\ DOMAIN results' = DOMAIN results \cup {futures[i].url}
            /\ results'[futures[i].url].status.label = "Error"
            /\ results'[futures[i].url].response_time = 0
            /\ results'[futures[i].url].status_code = None
            /\ \A k \in DOMAIN results \ {futures[i].url} :
                   results'[k] = results[k]

\* C9: when future.result() raises for a probe, the loop stores for that
\* url a synthetic Error record with response_time 0 and no status code,
\* leaves every other key as it was, and goes on; the call is never aborted
\* and still returns a dict with every input url as a key.
C9_SyntheticOutcome ==
    /\ [][C9_Step]_vars
    /\ [](pc # "raised" /\ ~aborted)
    /\ [](pc = "returned" => \A i \in 1..Len(websites) :
                                 websites[i] \in DOMAIN results)

C9_Witness ==
    /\ pc = "returned"
    /\ Len(websites) = 2
    /\ futures[1].res.kind = "raise"
    /\ results[websites[1]].status.label = "Error"
    /\ results[websites[1]].response_time = 0
    /\ results[websites[2]].status.label = "Online"

\* C10: every outcome stored by check_all_websites under key k records the
\* url check_website requests for k (k itself when it starts with http://
\* or https://, https:// + k otherwise), as every record returned by
\* check_website does.
C10_RecordedUrlIsRequestedUrl ==
    /\ CheckWebsiteRecordsRequestedUrl
    /\ \A k \in DOMAIN results :
           /\ results[k].url = Normalize(k)
           /\ StartsWith(results[k].url, HTTPS) \/ StartsWith(results[k].url, HTTP)

----------------------------------------------------------------------------
(* The Site List Store *)

\* The document at f is missing, or its content cannot be decoded or parsed.
Unreadable(f) ==
    \/ ~f.exists
    \/ \E decoded \in {Utf8Decode(f.bytes)} :
           ~decoded.ok \/ ~JsonLoads(decoded.text).ok

\* C11: load_websites never raises to its caller (so building the manager
\* never fails), and whenever the document is missing, truncated,
\* malformed or not decodable it returns exactly DEFAULT_WEBSITES.
C11_LoadDefaultsNeverRaises ==
    /\ app # "startup_error"
    /\ l_ret # NoResult =>
           /\ l_ret.kind = "return"
           /\ Unreadable(file) => l_ret.value = StrList(DEFAULT_WEBSITES)

\* C12: a load_websites() that follows a successful save_websites(xs), with
\* the document left alone in between, returns a list equal to xs in order
\* and content, duplicates included; xs may be the list a load returned.
C12_RoundTrip ==
    [][(s_ret = "true" /\ l_ret' # NoResult /\ file' = file)
           => l_ret' = Returned(StrList(s_arg))]_vars

C12_Witness ==
    /\ s_arg = <<UrlTricky>>
    /\ s_pc = "idle"
    /\ file = FileOf(SaveBytes(s_arg))
    /\ l_ret = Returned(StrList(<<UrlTricky>>))

\* C13: save_websites never raises; when open() or a write fails it returns
\* False after st.error and leaves self.websites as it was; it returns True
\* only with the whole dump in the document, and self.websites is replaced
\* by the saved list then and not before.
C13_SaveReportsFailure ==
    /\ s_ret # "raise"
    /\ s_ret = "false" <=> st_error = "saving"
    /\ s_ret = "false" => mgr = prev_mgr
    /\ s_pc = "writing" => mgr = prev_mgr /\ s_ret = "none"
    /\ s_ret = "true" =>
           /\ file = FileOf(SaveBytes(s_arg))
           /\ mgr = StrList(s_arg)

C13_Witness ==
    /\ s_ret = "false"
    /\ st_error = "saving"
    /\ s_done > 0
    /\ file = FileOf(SubSeq(SaveBytes(s_arg), 1, s_done))
    /\ mgr = prev_mgr
    /\ mgr # StrList(s_arg)

\* C14: when the process dies inside save_websites, the document is still
\* readable and the next load returns the list persisted before the save
\* or the list being saved.
C14_CrashAtomicSave ==
    app = "crashed" =>
        /\ ~Unreadable(file)
        /\ LoadWebsites(file, FALSE)
               \in {LoadWebsites(prev_file, FALSE), Returned(StrList(s_arg))}

\* C19: whatever the document holds, load_websites returns a list of str,
\* and so the manager's list after construction is a list of str.
C19_LoadReturnsStrList ==
    /\ (l_ret # NoResult /\ l_ret.kind = "return") => IsStrList(l_ret.value)
    /\ app = "running" => IsStrList(mgr)

----------------------------------------------------------------------------
(* Properties of the outcome records (checked under SingleSpec) *)

\* The categories of a record built from a response.
ResponseCategories == {"Online", "Redirect", "Client Error", "Server Error",
                       "Unknown"}

HasStatusCode(rec) == rec.status_code # None

\* The probe of the batch that ends with outcome o returns a record with a
\* status code exactly when o is a response.
C16_Step ==
    \A o \in TransportOutcomes, e \in BatchElapsed :
        (/\ Len(futures) = 1
         /\ futures[1].res = NoResult
         /\ futures'[1].res = CheckWebsite(futures[1].url, futures[1].timeout,
                                           o, e)) =>
            (HasStatusCode(futures'[1].res.value) <=> o.kind = "response")

\* C16: in every record returned by check_website or stored by
\* check_all_websites, status_code is set exactly when a response was
\* received, that is for Online, Redirect, Client Error, Server Error and
\* Unknown, and is None for SSL Error, Timeout, Connection Failed and Error,
\* the synthetic Error of the batch included.
C16_StatusCodeIffResponse ==
    /\ [][C16_Step]_vars
    /\ [](\A i \in 1..Len(futures) :
              futures[i].res.kind = "return" =>
                  (HasStatusCode(futures[i].res.value)
                       <=> futures[i].res.value.status.label
                               \in ResponseCategories))
    /\ [](\A k \in DOMAIN results :
              /\ results[k].status.label \in Categories
              /\ HasStatusCode(results[k])
                     <=> results[k].status.label \in ResponseCategories)
    /\ [](\A i \in yielded :
              futures[i].res.kind = "raise" =>
                  /\ results[futures[i].url].status.label = "Error"
                  /\ ~HasStatusCode(results[futures[i].url]))

C16_Witness ==
    /\ pc = "returned"
    /\ Len(futures) = 1
    /\ futures[1].res.kind = "return"
    /\ results[websites[1]].status.label = "Unknown"
    /\ results[websites[1]].status_code = Some(999)

----------------------------------------------------------------------------
(* Properties of the batch's result dict (checked under Spec) *)

\* C18: during one check_all_websites call no key of results is assigned
\* more than once, whatever the input list, duplicates included.
C18_WrittenAtMostOncePerKey ==
    \A k \in DOMAIN writes : writes[k] <= 1

----------------------------------------------------------------------------
(* Properties of the check cycle of the page (checked under CycleSpec) *)

\* C17: a check cycle runs its probes on a pool of max_workers workers with
\* the operator's timeout: every probe of the cycle has timeout_setting as
\* its timeout, and while fewer than max_workers probes are in flight and
\* urls of the list are still to be probed, another probe can start.
C17_CycleUsesWorkerPool ==
    /\ (c_pc = "running" /\ p_pc = "requesting") => p_timeout = timeout_setting
    /\ (/\ c_pc = "running"
        /\ CycleInFlight < max_workers
        /\ c_index + CycleInFlight < Len(CycleUrls)) => ENABLED CycleCall

----------------------------------------------------------------------------
(* Properties of the website form (checked under UiSpec) *)

\* load_websites would return the empty list from f.
PersistedEmpty(f) == LoadWebsites(f, FALSE) = Returned(PyList(<<>>))

\* A step of the form never empties the document or the manager's list,
\* and a run that refuses the save ("Website list cannot be empty!") enters
\* no save: the document is the one the run found and the list is what
\* that document loads as.
C15_Step ==
    /\ ~PersistedEmpty(file) => ~PersistedEmpty(file')
    /\ mgr # PyList(<<>>) => mgr' # PyList(<<>>)
    /\ ui_msg' = "empty" =>
           /\ file' \in {file, NoFile}
           /\ s_pc' = "idle"
           /\ s_ret' = "none"
           /\ Returned(mgr') = LoadWebsites(file', FALSE)

\* C15: no "Save Changes" or "Reset to Default" submission, whatever the
\* text, makes the persisted list or the in-memory list empty, and a Save
\* with no non-blank line is refused and changes neither.
C15_NeverPersistedEmpty == [][C15_Step]_vars

C15_Witness ==
    /\ ui_msg = "empty"
    /\ ui_text = <<" ", Newline, " ">>
    /\ file = FileOf(SaveBytes(<<<<"a">>>>))
    /\ mgr = StrList(<<<<"a">>>>)

\* The non-blank lines of each text of TextInputs, stripped, in order.
C20_Lines(text) ==
    CASE text = <<"a">> -> <<<<"a">>>>
      [] text = <<" ", "b", " ", Newline, Newline, "a", Newline, "b">> ->
             <<<<"b">>, <<"a">>, <<"b">>>>
      [] text = HTTPS \o <<"a", ".", "b", Newline, "x", " ", "y", EAcute>> ->
             <<HTTPS \o <<"a", ".", "b">>, <<"x", " ", "y", EAcute>>>>
      [] OTHER -> <<>>

\* C20: a "Save Changes" submission with a non-blank line saves exactly the
\* text's non-blank lines, stripped, in their order and with duplicates,
\* valid per the form's validation or not, and save_websites writes the
\* sequence it is given unchanged.
C20_SavesLinesUnchanged ==
    /\ (s_caller = "save_button" /\ s_pc = "writing") =>
           s_arg = C20_Lines(ui_text)
    /\ ui_msg = "saved" =>
           /\ s_arg = C20_Lines(ui_text)
           /\ s_arg # <<>>
           /\ file.exists =>
                  /\ file = FileOf(SaveBytes(s_arg))
                  /\ Returned(StrList(s_arg)) = LoadWebsites(file, FALSE)
                  /\ mgr = StrList(s_arg)

C20_Witness ==
    /\ ui_msg = "saved"
    /\ s_arg = <<<<"b">>, <<"a">>, <<"b">>>>
    /\ \A i \in 1..Len(s_arg) : ~IsValidUrl(s_arg[i])
    /\ mgr = StrList(s_arg)
    /\ file = FileOf(SaveBytes(s_arg))

----------------------------------------------------------------------------
(* A failed save (checked under StoreSpec) *)

\* C23: when save_websites returns False, self.websites is the list held
\* before the call and the document still holds the list it held before
\* the call: a load returns what it would have returned before the call.
C23_FailedSaveChangesNothing ==
    s_ret = "false" =>
        /\ mgr = prev_mgr
        /\ LoadWebsites(file, FALSE) = LoadWebsites(prev_file, FALSE)

----------------------------------------------------------------------------
(* Successive batches (checked under BatchesSpec) *)

\* Every record of results was stored in this call, for a future of this
\* call that the loop has taken.
C21_FromThisBatch ==
    \A k \in DOMAIN results :
        \E i \in yielded :
            /\ futures[i].url = k
            /\ results[k] = IF futures[i].res.kind = "return"
                            THEN futures[i].res.value
                            ELSE SyntheticStatus(k, futures[i].res.msg)

\* C21: check_website and check_all_websites change neither
\* website_manager.websites nor websites.json, and each check_all_websites
\* call starts from an empty dict: the dict it builds and returns holds only
\* records of this call, with the urls of this call's list as keys, whatever
\* earlier calls returned.
C21_ProbingStateless ==
    /\ [][mgr' = mgr /\ file' = file]_vars
    /\ []C21_FromThisBatch
    /\ [](pc = "returned" => DOMAIN results = Range(websites))

C21_Witness ==
    /\ pc = "returned"
    /\ websites = <<UrlBare>>
    /\ DOMAIN last_results = {UrlHttps, UrlBare}
    /\ last_results[UrlBare].status.label = "Online"
    /\ DOMAIN results = {UrlBare}
    /\ results[UrlBare].status.label = "Timeout"
    /\ mgr = StrList(<<UrlHttps, UrlBare>>)
    /\ file = FileOf(SaveBytes(<<UrlHttps, UrlBare>>))

----------------------------------------------------------------------------
(* Executions of check_website in one batch (checked under Spec) *)

\* The number of check_website executions of the call so far.
RECURSIVE TotalRuns(_)
TotalRuns(fs) ==
    IF fs = <<>> THEN 0 ELSE Head(fs).runs + TotalRuns(Tail(fs))

\* C22: in one check_all_websites call there is one work item per entry of
\* the list, in the list's order, and each is executed at most once, never
\* again after it ended, whatever its outcome; when the call returns every
\* entry has been executed exactly once, so the executions number
\* Len(websites), duplicates counted.
C22_EachEntryProbedOnce ==
    /\ Len(futures) <= Len(websites)
    /\ \A i \in 1..Len(futures) :
           /\ futures[i].url = websites[i]
           /\ futures[i].runs <= 1
           /\ futures[i].state = "PENDING" <=> futures[i].runs = 0
    /\ pc = "returned" =>
           /\ Len(futures) = Len(websites)
           /\ \A i \in 1..Len(futures) : futures[i].runs = 1
           /\ TotalRuns(futures) = Len(websites)

C22_Witness ==
    /\ pc = "returned"
    /\ websites = <<UrlBare, UrlBare>>
    /\ TotalRuns(futures) = 2
    /\ DOMAIN results = {UrlBare}
    /\ futures[1].res.kind = "return"
    /\ futures[1].res.value.status.label = "Timeout"
    /\ futures[2].res.kind = "raise"

====
